---- MODULE Spec2Model ----
(***************************************************************************)
(* A model of joystick's Graph frame (src/joystick/graph.py) and of the    *)
(* example program that drives it (src/joystick/example.py).               *)
(*                                                                         *)
(* Number representations                                                  *)
(*   - a value assigned to xnpts / xnptsmax is a Python number that may be *)
(*     fractional; it is held in HALVES (the integer h stands for h/2), so *)
(*     that int() is a real truncation and not the identity;               *)
(*   - a coordinate (data point, axis limit) is an integer number of       *)
(*     units of 0.005, so that Graph._minmini = 1e-2 is 2 units;           *)
(*   - an axis margin factor is held in TENTHS (11 stands for 1.1);        *)
(*   - a limit handed to set_xylim is held in 1/20 of a coordinate unit,   *)
(*     which makes (axmargin-1)*(max-min)*0.5 an integer.                  *)
(* None is the empty tuple << >>, a present value v is << v >>.            *)
(***************************************************************************)
EXTENDS Integers, Sequences, FiniteSets, TLC

VARIABLES
    xnpts,      \* Graph._xnpts
    xnptsmax,   \* Graph._xnptsmax
    kwargs,     \* Graph._kwargs, the stored construction parameters
    visible,    \* Frame.visible
    lineX,      \* ax.lines[0] x-data
    lineY,      \* ax.lines[0] y-data
    xylim,      \* Graph.xylim
    axmargin,   \* Graph.axmargin
    limarg,     \* the argument of the last set_xylim call made by _pre_update
    last,       \* the last console call: its name, argument and pre-state
    running,    \* the stop flag of the infinite loops (TRUE while started)
    pc,         \* position of the background thread of each looped method
    calls,      \* number of invocations of each looped method
    xdata,      \* test.xdata
    ydata       \* test.ydata

vars == << xnpts, xnptsmax, kwargs, visible, lineX, lineY, xylim, axmargin,
           limarg, last, running, pc, calls, xdata, ydata >>

graphVars == << xnpts, xnptsmax, kwargs, visible, lineX, lineY, xylim,
                axmargin, limarg >>
loopVars == << running, pc, calls, xdata, ydata >>

-----------------------------------------------------------------------------
(* Bounds *)

\* largest xnptsmax a Graph is constructed with
MaxN == 3

\* longest data vector handed to set_xydata
MaxLen == 3

\* longest displayed data vector the axes are scaled for
MaxPts == 2

\* most invocations of a looped method by its thread
MaxCalls == 2

-----------------------------------------------------------------------------
(* Values *)

None == << >>
Some(v) == << v >>

\* a whole number n as a value in halves
Whole(n) == 2 * n

\* the numbers a console user assigns: 0, 0.5, 1, ..., MaxN + 1
Values == 0 .. Whole(MaxN + 1)

\* the whole numbers given as reinit keyword values: 1, 2 and MaxN + 1
KwValues == { Whole(1), Whole(2), Whole(MaxN + 1) }

\* int(value): truncation toward zero of a value in halves
IntOf(h) == IF h >= 0 THEN h \div 2 ELSE -((-h) \div 2)

Min2(a, b) == IF a <= b THEN a ELSE b
Max2(a, b) == IF a >= b THEN a ELSE b

\* s[-k:] of a Python sequence: the last k elements for k > 0, and the whole
\* sequence for k = 0 (s[-0:] is s[0:])
LastSliceHead(s, k) ==
    IF k >= Len(s) THEN s ELSE SubSeq(s, 1, k)

LastSlice(s, k) ==
    IF k = 0 \/ k >= Len(s) THEN s
    ELSE SubSeq(s, Len(s) - k + 1, Len(s))

\* the data vectors handed to set_xydata: x is a time axis, rising or
\* falling, and y is any vector of the same length over DataVals
DataVals == {1, 4}
Ramp(n) == [i \in 1 .. n |-> i]
Reverse(s) == [i \in 1 .. Len(s) |-> s[Len(s) + 1 - i]]
XYPairs ==
    UNION { { Ramp(n), Reverse(Ramp(n)) } \X [1 .. n -> DataVals] :
            n \in 0 .. MaxLen }

SeqMin(s) == CHOOSE m \in { s[i] : i \in 1 .. Len(s) } :
                 \A i \in 1 .. Len(s) : m <= s[i]
SeqMax(s) == CHOOSE m \in { s[i] : i \in 1 .. Len(s) } :
                 \A i \in 1 .. Len(s) : m >= s[i]

-----------------------------------------------------------------------------
(* Graph: the property setters *)

\* xnptsmax.setter: the value the attribute holds after `xnptsmax = h`
XnptsmaxSet(cur, h) ==
    IF h < Whole(1) THEN cur ELSE IntOf(h)

\* xnpts.setter: the value the attribute holds after `xnpts = h`
XnptsSetNoMax(cur, max, h) ==
    IF ~(Whole(1) < h) THEN cur ELSE IntOf(h)

XnptsSet(cur, max, h) ==
    IF ~(Whole(1) < h /\ h <= Whole(max)) THEN cur ELSE IntOf(h)

\* the record of a console call: its name, its arguments, and the values the
\* graph held when it was made
NoCall ==
    [op |-> "none", arg |-> 0, x |-> << >>, y |-> << >>,
     xnpts |-> 0, xnptsmax |-> 0, visible |-> TRUE]
Call(name, h, x, y) ==
    [op |-> name, arg |-> h, x |-> x, y |-> y,
     xnpts |-> xnpts, xnptsmax |-> xnptsmax, visible |-> visible]

-----------------------------------------------------------------------------
(* Graph._pre_update: the axes scaling *)

\* Graph._minmini = 1e-2, in coordinate units of 0.005
MinMini == 2

\* limits are handed over in 1/20 of a coordinate unit: (m/10 - 1) * d * 0.5
\* is (m - 10) * d twentieths
LimScale == 20

\* one axis of _pre_update: data d, configured bounds lo and hi (None or
\* Some), margin factor m in tenths; the pair (min_f, max_f) in 1/LimScale
AxisLimitsAllPushed(d, lo, hi, m) ==
    LET min_f == IF lo = None THEN SeqMin(d) ELSE lo[1]
        max_f == IF hi = None THEN Max2(SeqMax(d), min_f + MinMini) ELSE hi[1]
        dx    == (m - 10) * (max_f - min_f)
    IN  << LimScale * min_f - dx, LimScale * max_f + dx >>

AxisLimits(d, lo, hi, m) ==
    LET min_f == IF lo = None THEN SeqMin(d) ELSE lo[1]
        max_f == IF hi = None THEN Max2(SeqMax(d), min_f + MinMini) ELSE hi[1]
        dx    == (m - 10) * (max_f - min_f)
    IN  IF m # 10
        THEN << LimScale * min_f - (IF lo = None THEN dx ELSE 0),
                LimScale * max_f + (IF hi = None THEN dx ELSE 0) >>
        ELSE << LimScale * min_f, LimScale * max_f >>

\* x.min() / x.max() raise on an empty array; they are evaluated only for a
\* bound that is None
AxisRaises(d, lo, hi) == Len(d) = 0 /\ (lo = None \/ hi = None)

NoLimits == [st |-> "none", v |-> << 0, 0, 0, 0 >>]
Raised == [st |-> "raised", v |-> << 0, 0, 0, 0 >>]

\* what _pre_update hands to set_xylim; get_xydata returns None for a frame
\* that is not visible and unpacking it raises
PreUpdateArg(vis, x, y, lim, am) ==
    IF ~vis \/ AxisRaises(x, lim[1], lim[2]) \/ AxisRaises(y, lim[3], lim[4])
    THEN Raised
    ELSE [st |-> "ok",
          v  |-> AxisLimits(x, lim[1], lim[2], am[1])
                 \o AxisLimits(y, lim[3], lim[4], am[2])]

Abs(n) == IF n < 0 THEN -n ELSE n

-----------------------------------------------------------------------------
(* Graph: construction and the console operations *)

\* the defaults of Graph.__init__ for xylim and axmargin
DefaultXylim == << Some(0), None, Some(0), None >>
DefaultAxmargin == << 11, 11 >>

\* self._kwargs.update(kwargs)
Update(old, kw) ==
    [k \in DOMAIN old |-> IF k \in DOMAIN kw THEN kw[k] ELSE old[k]]

\* keyword arguments of reinit that touch the point counts
KwNpts ==
    UNION { [D -> KwValues] : D \in SUBSET {"xnpts", "xnptsmax"} }

\* _init_base on the stored parameters kw: the attribute values it leaves,
\* starting from point counts curmax and cur
InitBase(kw, curmax, cur) ==
    LET newmax == XnptsmaxSet(curmax, Whole(IntOf(kw.xnptsmax)))
        lim    == kw.xylim
        am     == << Abs(kw.axmargin[1]), Abs(kw.axmargin[2]) >>
    IN  [xnptsmax |-> newmax,
         xylim    |-> lim,
         axmargin |-> am,
         xnpts    |-> XnptsSet(cur, newmax, Whole(IntOf(kw.xnpts))),
         lineX    |-> << 0 >>,
         lineY    |-> << 0 >>,
         limarg   |-> PreUpdateArg(TRUE, << 0 >>, << 0 >>, lim, am)]

\* the graphs Graph(xnpts=n, xnptsmax=m, ...) builds for valid point counts
Constructed(m, n) ==
    /\ kwargs = [xnpts |-> Whole(n), xnptsmax |-> Whole(m),
                 xylim |-> DefaultXylim, axmargin |-> DefaultAxmargin]
    /\ xnptsmax = m
    /\ xnpts = n
    /\ xylim = DefaultXylim
    /\ axmargin = DefaultAxmargin
    /\ lineX = << 0 >>
    /\ lineY = << 0 >>
    /\ visible = TRUE
    /\ limarg = PreUpdateArg(TRUE, << 0 >>, << 0 >>, DefaultXylim,
                             DefaultAxmargin)

\* no looped method has been started
LoopsIdle ==
    /\ running = FALSE
    /\ pc = [m \in {"data", "image"} |-> "idle"]
    /\ calls = [m \in {"data", "image"} |-> 0]
    /\ xdata = << 0 >>
    /\ ydata = << 0 >>

\* graph.xnpts = h
SetXnpts(h) ==
    /\ xnpts' = XnptsSet(xnpts, xnptsmax, h)
    /\ last' = Call("xnpts", h, << >>, << >>)
    /\ UNCHANGED << xnptsmax, kwargs, visible, lineX, lineY, xylim, axmargin,
                    limarg >>
    /\ UNCHANGED loopVars

\* graph.xnptsmax = h
SetXnptsmax(h) ==
    /\ xnptsmax' = XnptsmaxSet(xnptsmax, h)
    /\ last' = Call("xnptsmax", h, << >>, << >>)
    /\ UNCHANGED << xnpts, kwargs, visible, lineX, lineY, xylim, axmargin,
                    limarg >>
    /\ UNCHANGED loopVars

\* graph.reinit(**kw)
Reinit(kw) ==
    LET stored == Update(kwargs, kw)
        g      == InitBase(stored, xnptsmax, xnpts)
    IN  /\ kwargs' = stored
        /\ visible' = TRUE
        /\ xnptsmax' = g.xnptsmax
        /\ xylim' = g.xylim
        /\ axmargin' = g.axmargin
        /\ xnpts' = g.xnpts
        /\ lineX' = g.lineX
        /\ lineY' = g.lineY
        /\ limarg' = g.limarg
        /\ last' = Call("reinit", 0, << >>, << >>)
        /\ UNCHANGED loopVars

\* graph.set_xydata(x, y)
SetXydata(x, y) ==
    /\ IF visible
       THEN /\ lineX' = LastSlice(x, xnpts)
            /\ lineY' = LastSlice(y, xnpts)
       ELSE UNCHANGED << lineX, lineY >>
    /\ last' = Call("set_xydata", 0, x, y)
    /\ UNCHANGED << xnpts, xnptsmax, kwargs, visible, xylim, axmargin,
                    limarg >>
    /\ UNCHANGED loopVars

\* graph.get_xydata(): None for a frame that is not visible
GetXydata == IF visible THEN Some(<< lineX, lineY >>) ELSE None

\* the user closes the window of the frame
Close ==
    /\ visible
    /\ visible' = FALSE
    /\ last' = Call("close", 0, << >>, << >>)
    /\ UNCHANGED << xnpts, xnptsmax, kwargs, lineX, lineY, xylim, axmargin,
                    limarg >>
    /\ UNCHANGED loopVars

Init ==
    /\ \E m \in 2 .. MaxN : \E n \in 2 .. m : Constructed(m, n)
    /\ last = NoCall
    /\ LoopsIdle

Next ==
    \/ \E h \in Values : SetXnpts(h)
    \/ \E h \in Values : SetXnptsmax(h)
    \/ \E kw \in KwNpts : Reinit(kw)

Spec == Init /\ [][Next]_vars

\* the console feeding data to the graph, resizing, closing and reopening it
NextXY ==
    \/ \E p \in XYPairs : SetXydata(p[1], p[2])
    \/ \E h \in Values : SetXnpts(h)
    \/ Close
    \/ Reinit(<< >>)

SpecXY == Init /\ [][NextXY]_vars

\* the frame's update timer: _pre_update scales the axes
PreUpdate ==
    /\ limarg' = PreUpdateArg(visible, lineX, lineY, xylim, axmargin)
    /\ UNCHANGED << xnpts, xnptsmax, kwargs, visible, lineX, lineY, xylim,
                    axmargin, last >>
    /\ UNCHANGED loopVars

\* the displayed data, axis limits and margins _pre_update is applied to:
\* x-data within MinMini of each other and further apart, limits below,
\* inside and above the data, margins of 1, above 1 and below 1
AxesX == UNION { [1 .. n -> {1, 2, 5}] : n \in 0 .. MaxPts }
AxesY(n) == [1 .. n -> {1, 5}]
AxesXylim ==
    { None, Some(0), Some(3) } \X { None, Some(0), Some(3) }
        \X { None, Some(3) } \X { None, Some(3) }
AxesMargin == { 10, 11, 8 } \X { 10, 15 }

InitAxes ==
    /\ kwargs = [xnpts |-> Whole(MaxN), xnptsmax |-> Whole(MaxN),
                 xylim |-> DefaultXylim, axmargin |-> DefaultAxmargin]
    /\ xnptsmax = MaxN
    /\ xnpts = MaxN
    /\ visible \in BOOLEAN
    /\ lineX \in AxesX
    /\ lineY \in AxesY(Len(lineX))
    /\ xylim \in AxesXylim
    /\ axmargin \in AxesMargin
    /\ limarg = NoLimits
    /\ last = NoCall
    /\ LoopsIdle

NextAxes == PreUpdate

SpecAxes == InitAxes /\ [][NextAxes]_vars

-----------------------------------------------------------------------------
(* The infinite loops: one background thread per decorated method, which    *)
(* invokes the method, sleeps, and repeats until the stop flag is set.      *)
(* Thread positions: "idle" (never started), "check" (testing the flag),    *)
(* "body" (about to run the method), "sleep", "done" (terminated); the data *)
(* loop also stops at "addy", "call", "setx" and "sety" inside its method.  *)

Methods == {"data", "image"}

\* Joystick.start(): clears the stop flag and starts a thread for every
\* looped method that has none alive
Start ==
    /\ ~running
    /\ running' = TRUE
    /\ pc' = [m \in Methods |->
                 IF pc[m] \in {"idle", "done"} THEN "check" ELSE pc[m]]
    /\ UNCHANGED << calls, xdata, ydata, last >>
    /\ UNCHANGED graphVars

\* Joystick.stop(): sets the stop flag
Stop ==
    /\ running
    /\ running' = FALSE
    /\ UNCHANGED << pc, calls, xdata, ydata, last >>
    /\ UNCHANGED graphVars

LoopCheckDeaf(m) ==
    /\ pc[m] = "check"
    /\ pc' = [pc EXCEPT ![m] = IF calls[m] < MaxCalls THEN "body" ELSE "check"]
    /\ UNCHANGED << running, calls, xdata, ydata, last >>
    /\ UNCHANGED graphVars

\* the loop test of the thread of method m
LoopCheck(m) ==
    /\ pc[m] = "check"
    /\ running => calls[m] < MaxCalls
    /\ pc' = [pc EXCEPT ![m] = IF running THEN "body" ELSE "done"]
    /\ UNCHANGED << running, calls, xdata, ydata, last >>
    /\ UNCHANGED graphVars

\* one invocation of the looped method m, start to return
LoopInvoke(m) ==
    /\ pc[m] = "body"
    /\ calls' = [calls EXCEPT ![m] = @ + 1]
    /\ pc' = [pc EXCEPT ![m] = "sleep"]
    /\ UNCHANGED << running, xdata, ydata, last >>
    /\ UNCHANGED graphVars

\* the wait between two invocations is over
LoopSleep(m) ==
    /\ pc[m] = "sleep"
    /\ pc' = [pc EXCEPT ![m] = "check"]
    /\ UNCHANGED << running, calls, xdata, ydata, last >>
    /\ UNCHANGED graphVars

LoopStep(m) == LoopCheck(m) \/ LoopInvoke(m) \/ LoopSleep(m)

InitLoop ==
    /\ Constructed(MaxN, 2)
    /\ last = NoCall
    /\ LoopsIdle

NextLoop ==
    \/ Start
    \/ Stop
    \/ \E m \in Methods : LoopCheck(m)
    \/ \E m \in Methods : LoopInvoke(m)
    \/ \E m \in Methods : LoopSleep(m)

\* a started thread is scheduled, its method returns and its sleep ends
SpecLoop ==
    InitLoop /\ [][NextLoop]_vars /\ \A m \in Methods : WF_vars(LoopStep(m))

-----------------------------------------------------------------------------
(* test._generate_fake_data, statement by statement, on the data thread,    *)
(* with the console changing the graph under it. Time stamps are whole      *)
(* tenths of a second counted from _t0, which np.round(., 1) leaves as they *)
(* are; the stamp of an invocation is its number.                           *)

\* core.add_datapoint(data, v, xnptsmax=M): v appended, the oldest points
\* deleted so that at most M are kept
AddDatapoint(data, v, M) ==
    LET all == Append(data, v)
    IN  IF Len(all) <= M THEN all
        ELSE SubSeq(all, Len(all) - M + 1, Len(all))

\* the values np.random.random() * 1.05 gives: below the ceiling, above it
YVals == {1, 4}

AddXUnbounded ==
    /\ pc["data"] = "body"
    /\ calls' = [calls EXCEPT !["data"] = @ + 1]
    /\ xdata' = Append(xdata, calls'["data"])
    /\ pc' = [pc EXCEPT !["data"] = "addy"]
    /\ UNCHANGED << running, ydata, last >>
    /\ UNCHANGED graphVars

\* self.xdata = add_datapoint(self.xdata, time.time(), graph.xnptsmax)
AddX ==
    /\ pc["data"] = "body"
    /\ calls' = [calls EXCEPT !["data"] = @ + 1]
    /\ xdata' = AddDatapoint(xdata, calls'["data"], xnptsmax)
    /\ pc' = [pc EXCEPT !["data"] = "addy"]
    /\ UNCHANGED << running, ydata, last >>
    /\ UNCHANGED graphVars

\* self.ydata = add_datapoint(self.ydata, random() * 1.05, graph.xnptsmax)
AddY ==
    /\ pc["data"] = "addy"
    /\ \E v \in YVals : ydata' = AddDatapoint(ydata, v, xnptsmax)
    /\ pc' = [pc EXCEPT !["data"] = "call"]
    /\ UNCHANGED << running, calls, xdata, last >>
    /\ UNCHANGED graphVars

\* graph.set_xydata(t, self.ydata) is entered: `if self.visible`
CallSetXydata ==
    /\ pc["data"] = "call"
    /\ pc' = [pc EXCEPT !["data"] = IF visible THEN "setx" ELSE "sleep"]
    /\ UNCHANGED << running, calls, xdata, ydata, last >>
    /\ UNCHANGED graphVars

\* self.ax.lines[0].set_xdata(x[-self.xnpts:])
SetX ==
    /\ pc["data"] = "setx"
    /\ lineX' = LastSlice(xdata, xnpts)
    /\ pc' = [pc EXCEPT !["data"] = "sety"]
    /\ UNCHANGED << xnpts, xnptsmax, kwargs, visible, lineY, xylim, axmargin,
                    limarg >>
    /\ UNCHANGED << running, calls, xdata, ydata, last >>

\* self.ax.lines[0].set_ydata(y[-self.xnpts:]), and the method returns
SetY ==
    /\ pc["data"] = "sety"
    /\ lineY' = LastSlice(ydata, xnpts)
    /\ pc' = [pc EXCEPT !["data"] = "sleep"]
    /\ UNCHANGED << xnpts, xnptsmax, kwargs, visible, lineX, xylim, axmargin,
                    limarg >>
    /\ UNCHANGED << running, calls, xdata, ydata, last >>

\* graph.xnpts = h typed at the console while the loops run
ConsoleXnpts(h) ==
    /\ xnpts' = XnptsSet(xnpts, xnptsmax, h)
    /\ UNCHANGED << xnptsmax, kwargs, visible, lineX, lineY, xylim, axmargin,
                    limarg >>
    /\ UNCHANGED << last, running, pc, calls, xdata, ydata >>

\* graph.xnptsmax = h typed at the console while the loops run
ConsoleXnptsmax(h) ==
    /\ xnptsmax' = XnptsmaxSet(xnptsmax, h)
    /\ UNCHANGED << xnpts, kwargs, visible, lineX, lineY, xylim, axmargin,
                    limarg >>
    /\ UNCHANGED << last, running, pc, calls, xdata, ydata >>

\* the values typed at the console while the loops run: 1, ..., MaxN + 1
ConsoleValues == { Whole(n) : n \in 1 .. (MaxN + 1) }

\* the program after t = test() and t.start(); the image loop shares no
\* state with the graph and is left where start() put it
InitThreads ==
    /\ \E m \in 2 .. MaxN : \E n \in 2 .. m : Constructed(m, n)
    /\ last = NoCall
    /\ running = TRUE
    /\ pc = [m \in Methods |-> "check"]
    /\ calls = [m \in Methods |-> 0]
    /\ xdata = << 0 >>
    /\ ydata = << 0 >>

NextThreads ==
    \/ LoopCheck("data")
    \/ AddX
    \/ AddY
    \/ CallSetXydata
    \/ SetX
    \/ SetY
    \/ LoopSleep("data")
    \/ Stop
    \/ \E h \in ConsoleValues : ConsoleXnpts(h)
    \/ \E h \in ConsoleValues : ConsoleXnptsmax(h)

SpecThreads == InitThreads /\ [][NextThreads]_vars

-----------------------------------------------------------------------------
(* Claims on the point counts *)

\* C1: an assignment to xnpts of a value above xnptsmax, or not greater
\* than 1, is rejected: xnpts reads as before the assignment, and xnptsmax
\* is unchanged.
C1_RejectedKeepsPrior ==
    (last.op = "xnpts"
        /\ (last.arg > Whole(last.xnptsmax) \/ last.arg <= Whole(1)))
    => (xnpts = last.xnpts /\ xnptsmax = last.xnptsmax)

\* an assignment above xnptsmax of a value that is otherwise acceptable
C1_Witness ==
    /\ last.op = "xnpts"
    /\ last.arg > Whole(last.xnptsmax)
    /\ IntOf(last.arg) # last.xnpts

\* C2: in every state reachable by assignments to xnpts, to xnptsmax and by
\* reinit, 1 < xnpts <= xnptsmax.
C2_XnptsInRange == 1 < xnpts /\ xnpts <= xnptsmax

\* C3: xnptsmax > 1 in every reachable state, an assignment of a value not
\* greater than 1 being rejected.
C3_XnptsmaxAboveOne ==
    /\ xnptsmax > 1
    /\ (last.op = "xnptsmax" /\ last.arg <= Whole(1))
          => xnptsmax = last.xnptsmax

-----------------------------------------------------------------------------
(* Claims on the displayed data *)

\* the last k elements of s, in their order
Suffix(s, k) == [i \in 1 .. k |-> s[Len(s) - k + i]]

\* C4: a set_xydata(x, y) call with len(x) = len(y) = n on a visible graph
\* leaves get_xydata() returning the last min(n, xnpts) elements of x and of
\* y; on a graph that is not visible it leaves the displayed data unchanged.
C4_SetXydataKeepsLast ==
    [][last'.op = "set_xydata" =>
         LET k == Min2(Len(last'.x), xnpts)
         IN  IF visible
             THEN GetXydata' =
                      Some(<< Suffix(last'.x, k), Suffix(last'.y, k) >>)
             ELSE lineX' = lineX /\ lineY' = lineY]_vars

\* a call on a visible graph with more points than are plotted
C4_Witness ==
    /\ last.op = "set_xydata"
    /\ last.visible
    /\ Len(last.x) > last.xnpts
    /\ lineX = Suffix(last.x, last.xnpts)


-----------------------------------------------------------------------------
(* Claims on the axes scaling *)

\* what C7 states of one axis: data d, configured bounds lo and hi, margin
\* factor m, and the two limits outLo and outHi handed to set_xylim
C7_Axis(d, lo, hi, m, outLo, outHi) ==
    LET lower == IF lo = None THEN SeqMin(d) ELSE lo[1]
        upper == IF hi = None
                 THEN Max2(SeqMax(d), lower + MinMini) ELSE hi[1]
        push  == (m - 10) * (upper - lower)
    IN  /\ lo # None => outLo = LimScale * lo[1]
        /\ hi # None => outHi = LimScale * hi[1]
        /\ lo = None => outLo = LimScale * lower - push
        /\ hi = None => outHi = LimScale * upper + push

\* C7: _pre_update hands set_xylim, for a component of xylim that is not
\* None, exactly the configured value, and for a component that is None the
\* data minimum (resp. the larger of the data maximum and the lower bound +
\* 0.01) pushed outward by (axmargin - 1) * (upper - lower) / 2.
C7_PreUpdateLimits ==
    limarg.st = "ok" =>
        /\ C7_Axis(lineX, xylim[1], xylim[2], axmargin[1],
                   limarg.v[1], limarg.v[2])
        /\ C7_Axis(lineY, xylim[3], xylim[4], axmargin[2],
                   limarg.v[3], limarg.v[4])

\* an update with a recalculated lower x bound, a configured upper x bound,
\* a margin and spread-out data
C7_Witness ==
    /\ limarg.st = "ok"
    /\ xylim[1] = None
    /\ xylim[2] # None
    /\ xylim[4] = None
    /\ axmargin[1] # 10
    /\ Len(lineX) > 1
    /\ SeqMax(lineX) > SeqMin(lineX)
    /\ limarg.v[1] # LimScale * SeqMin(lineX)


-----------------------------------------------------------------------------
(* Claims on the loops *)

\* new is old with v appended under capacity M: at most M long, v last, the
\* rest the latest points of old in their order, and exactly the oldest point
\* deleted when old was full
FixedAppend(old, new, v, M) ==
    /\ Len(new) >= 1
    /\ Len(new) <= M
    /\ new[Len(new)] = v
    /\ SubSeq(new, 1, Len(new) - 1) = Suffix(old, Len(new) - 1)
    /\ Len(old) < M => Len(new) = Len(old) + 1
    /\ Len(old) = M => new = Append(Tail(old), v)

C6_LoopStops ==
    /\ (~running) ~> (running \/ \A m \in Methods : pc[m] \in {"idle", "done"})
    /\ [][\A m \in Methods :
             pc[m] = "done" =>
                 /\ calls'[m] = calls[m]
                 /\ pc'[m] # "done" => (~running /\ running')]_vars

\* both loops have invoked their method and have terminated after a stop()
C6_Witness ==
    /\ ~running
    /\ \A m \in Methods : pc[m] = "done" /\ calls[m] > 0

\* C8: when a set_xydata(x, y) call of the data loop with len(x) = len(y)
\* has returned, the displayed x-data and y-data have the same length.
C8_SameLengthOnReturn ==
    (pc["data"] = "sleep" /\ visible /\ Len(xdata) = Len(ydata))
        => Len(lineX) = Len(lineY)

====
